---- MODULE Spec2Model ----
(***************************************************************************)
(* DbResourceCollection (src/src/lib/index.ts): a resource collection held *)
(* in a SQL table reached through a Sequelize model handle.  The state is  *)
(* the table behind the model handle; the operations are list, get,        *)
(* create, update and delete.  Every operation is one storage statement,   *)
(* except update on an engine that does not return the updated rows, which *)
(* is a conditional UPDATE followed by a re-fetch.                         *)
(***************************************************************************)
EXTENDS Integers, Sequences, FiniteSets, TLC

VARIABLES rows, nextId, last

vars == <<rows, nextId, last>>

(***************************************************************************)
(* Bounds of the model.                                                    *)
(***************************************************************************)
MaxId == 2

MaxStack == 4

MaxPage == 3

Ids == 1..MaxId

GroupIds == {1, 2}

Names == {<<"W", "r">>}

Urls == {<<"users">>, <<"users", "1">>}

Url == <<"users", "1">>

(***************************************************************************)
(* Values.  A row, a payload's attributes and a projection of a row are    *)
(* maps from column names to values; a NULL column is a column the map     *)
(* does not have.  An optional value (undefined/null in the source) is a   *)
(* sequence of length 0 or 1.                                              *)
(***************************************************************************)
EmptyMap == [k \in {} |-> 0]

None == <<>>

Some(v) == <<v>>

Restrict(m, ks) == [k \in (DOMAIN m) \cap ks |-> m[k]]

(***************************************************************************)
(* Filter specs.  A filter object may carry the combinator keys $and, $or  *)
(* and $not beside its column keys; a column's value is a scalar           *)
(* ({name: 'x'}), a plain object of operators ({name: {$like: 'x%'}}) or,  *)
(* once translated, a Sequelize.where(fn('lower', col), {$like: ...}).     *)
(***************************************************************************)
Scalar(v) == [kind |-> "scalar", v |-> v]

Object(ops) == [kind |-> "object", ops |-> ops]

Filter(leaf) == [and |-> None, or |-> None, not |-> None, leaf |-> leaf]

(***************************************************************************)
(* Strings are sequences of one-character strings.                         *)
(***************************************************************************)
toLowerCaseChar(c) ==
  CASE c = "W" -> "w"
    [] c = "F" -> "f"
    [] c = "R" -> "r"
    [] OTHER -> c

toLowerCase(s) == [i \in 1..Len(s) |-> toLowerCaseChar(s[i])]

RECURSIVE Like(_, _)
\* SQL LIKE: % matches any run of characters, every other character itself.
Like(s, p) ==
  IF p = <<>> THEN s = <<>>
  ELSE IF Head(p) = "%"
       THEN Like(s, Tail(p)) \/ (s # <<>> /\ Like(Tail(s), p))
       ELSE s # <<>> /\ Head(s) = Head(p) /\ Like(Tail(s), Tail(p))

\* One operator of a column's operator object, on the column's value.
EvalOp(op, arg, r, k, ci) ==
  CASE op = "$like" ->
         /\ k \in DOMAIN r
         /\ IF ci THEN Like(toLowerCase(r[k]), toLowerCase(arg))
                  ELSE Like(r[k], arg)
    [] op = "$ne" -> k \in DOMAIN r /\ r[k] # arg
    [] OTHER -> FALSE

EvalLeaf(k, lv, r, ci) ==
  CASE lv.kind = "scalar" -> k \in DOMAIN r /\ r[k] = lv.v
    [] lv.kind = "object" ->
         \A op \in DOMAIN lv.ops : EvalOp(op, lv.ops[op], r, k, ci)
    [] lv.kind = "where" ->
         /\ lv.col \in DOMAIN r
         /\ Like(toLowerCase(r[lv.col]), lv.ops["$like"])
    [] OTHER -> FALSE

RECURSIVE EvalWith(_, _, _)
\* Whether row r satisfies predicate P: the keys of one object are ANDed.
\* ci: $like ignores case (the filter as the caller means it); otherwise
\* $like is the storage engine's, which compares case-sensitively.
EvalWith(P, r, ci) ==
  /\ \A k \in DOMAIN P.leaf : EvalLeaf(k, P.leaf[k], r, ci)
  /\ (P.and # None => \A i \in 1..Len(P.and[1]) : EvalWith(P.and[1][i], r, ci))
  /\ (P.or # None => \E i \in 1..Len(P.or[1]) : EvalWith(P.or[1][i], r, ci))
  /\ (P.not # None => ~EvalWith(P.not[1], r, ci))

\* The storage engine's evaluation of a where clause.
Eval(P, r) == EvalWith(P, r, FALSE)

\* filtr(constraints).test(attributes, {type: 'single'})
filtrTest(constraints, attributes) == EvalWith(constraints, attributes, TRUE)

(***************************************************************************)
(* URLs are sequences of path segments; a segment "<%=column%>" is a       *)
(* placeholder of the lodash template syntax the Resource class renders    *)
(* with the resource's attributes.                                         *)
(***************************************************************************)
Placeholders == ("<%=id%>" :> "id") @@ ("<%=groupId%>" :> "groupId")

RenderSegment(seg, attributes) ==
  IF seg \in DOMAIN Placeholders
  THEN IF Placeholders[seg] \in DOMAIN attributes
       THEN ToString(attributes[Placeholders[seg]])
       ELSE "undefined"
  ELSE seg

\* The link a Resource shows for a URL template.
Render(url, attributes) ==
  [i \in 1..Len(url) |-> RenderSegment(url[i], attributes)]

\* new Corrieneuch.Resource(url, attributes)
Resource(url, attributes) ==
  [self |-> url, attributes |-> attributes, links |-> EmptyMap, includes |-> <<>>]

\* resource.links.$self
SelfLink(resource) == Render(resource.self, resource.attributes)

(***************************************************************************)
(* The relationships the collection is constructed with, and the tables    *)
(* they join: a user belongs to a group (groupId) and has many posts       *)
(* (authorId).  Group 1 exists, group 2 does not; user 1 wrote two posts.  *)
(***************************************************************************)
relationships ==
  ("group" :> [relationship |-> [as |-> "group", many |-> FALSE],
               link |-> <<"groups", "<%=groupId%>">>])
  @@ ("posts" :> [relationship |-> [as |-> "posts", many |-> TRUE],
                  link |-> <<"users", "<%=id%>", "posts">>])

Groups == {[id |-> 1, name |-> <<"g">>]}

Posts == {[id |-> 1, authorId |-> 1, title |-> <<"h">>],
          [id |-> 2, authorId |-> 1, title |-> <<"w">>]}

RECURSIVE SortById(_)
\* The rows of a set in ascending id order (ids are unique).
SortById(S) ==
  IF S = {} THEN <<>>
  ELSE LET m == CHOOSE r \in S : \A q \in S : r.id <= q.id
       IN <<m>> \o SortById(S \ {m})

Reverse(s) == [i \in 1..Len(s) |-> s[Len(s) + 1 - i]]

\* A Sequelize instance of a joined table, as found under the `as` name.
Entity(row) == [kind |-> "entity", data |-> row]

EntityArray(items) == [kind |-> "entities", items |-> items]

\* What the engine loads for one row and one join spec: nothing (NULL), one
\* instance, or an array of instances.
Joined(r, joinSpec) ==
  IF joinSpec.many
  THEN Some(EntityArray(SortById({p \in Posts : p.authorId = r.id})))
  ELSE LET g == {x \in Groups : "groupId" \in DOMAIN r /\ x.id = r.groupId}
       IN IF g = {} THEN None ELSE Some(Entity(CHOOSE x \in g : TRUE))

\* instance.get() of a found row: the projected columns, and the loaded
\* associations under their `as` names.
Instance(r, query) ==
  LET cols == IF query.attributes = None THEN r
              ELSE Restrict(r, {query.attributes[1][i] :
                                  i \in 1..Len(query.attributes[1])})
      inc == IF query.include = None THEN <<>> ELSE query.include[1]
      loaded == {i \in 1..Len(inc) : Joined(r, inc[i]) # None}
  IN cols @@ [a \in {inc[i].as : i \in loaded} |->
                Joined(r, CHOOSE j \in {inc[i] : i \in loaded} : j.as = a)[1]]

Matching(tbl, where) ==
  {r \in tbl : where = None \/ Eval(where[1], r)}

\* model.findOne(query): the first matching row, or null.
findOne(tbl, query) ==
  LET m == SortById(Matching(tbl, query.where))
  IN IF m = <<>> THEN None ELSE Some(Instance(m[1], query))

(***************************************************************************)
(* Query options (Corrieneuch.QueryOptions, already parsed): page          *)
(* {number, size}, fields (fieldsFor('$self')), include, filter, sort.     *)
(***************************************************************************)
Elems(s) == {s[i] : i \in 1..Len(s)}

RelationshipNames == <<"group", "posts">>

\* _getInclude(options, field): the requested names that are registered,
\* each with that field of its relationship; null without an include option.
getInclude(options, field) ==
  IF options.include = None THEN None
  ELSE Some([k \in Elems(options.include[1]) \cap DOMAIN relationships |->
               relationships[k][field]])

\* _.values of a dictionary (of null: the empty list).
values(dict) ==
  IF dict = None THEN <<>>
  ELSE LET present(k) == k \in DOMAIN dict[1]
           names == SelectSeq(RelationshipNames, present)
       IN [i \in 1..Len(names) |-> dict[1][names[i]]]

\* The snapshot(s) value.get() gives for a loaded association.
Snapshot(value) ==
  IF value.kind = "entities"
  THEN [kind |-> "snapshots", items |-> value.items]
  ELSE [kind |-> "snapshot", data |-> value.data]

\* _convertFromInstance without the skip of null values: every requested
\* relationship is linked.
convertFromInstanceLinkAll(resource, includeLinks) ==
  LET hit == {k \in DOMAIN includeLinks : k \in DOMAIN resource.attributes}
  IN [resource EXCEPT
        !.attributes = [a \in DOMAIN resource.attributes |->
                          IF a \in hit THEN Snapshot(resource.attributes[a])
                          ELSE resource.attributes[a]],
        !.links = includeLinks @@ resource.links]

\* _convertFromInstance(resource, includeLinks)
convertFromInstance(resource, includeLinks) ==
  LET hit == {k \in DOMAIN includeLinks : k \in DOMAIN resource.attributes}
  IN [resource EXCEPT
        !.attributes = [a \in DOMAIN resource.attributes |->
                          IF a \in hit THEN Snapshot(resource.attributes[a])
                          ELSE resource.attributes[a]],
        !.links = [k \in hit |-> includeLinks[k]] @@ resource.links]

\* The included resources one linked attribute gives: one per entity, its
\* self-link the relationship's template rendered with the parent's fields.
IncludesOf(resource, k) ==
  LET link == Render(resource.links[k], resource.attributes)
      v == resource.attributes[k]
  IN IF v.kind = "snapshots"
     THEN [i \in 1..Len(v.items) |-> Resource(link, v.items[i])]
     ELSE <<Resource(link, v.data)>>

RECURSIVE FlattenKeys(_, _)
FlattenKeys(resource, ks) ==
  IF ks = <<>> THEN <<>>
  ELSE (IF Head(ks) \in DOMAIN resource.links
           /\ Head(ks) \in DOMAIN resource.attributes
        THEN IncludesOf(resource, Head(ks)) ELSE <<>>)
       \o FlattenKeys(resource, Tail(ks))

\* resource.flatten() of a single resource: every linked attribute is moved
\* out of the attributes into the includes.
flatten(resource) ==
  [resource EXCEPT
     !.attributes = Restrict(resource.attributes,
                             DOMAIN resource.attributes \ DOMAIN resource.links),
     !.includes = resource.includes \o FlattenKeys(resource, RelationshipNames)]

\* {id, ...filter}: the keys of filter are spread over {id}.
SpreadId(id, filter) ==
  IF filter = None THEN Filter("id" :> Scalar(id))
  ELSE [filter[1] EXCEPT !.leaf = filter[1].leaf @@ ("id" :> Scalar(id))]

\* get's projection without the push of id.
getAttributesAsGiven(options) == options.fields

\* get: the projection, with id pushed when the field list lacks it.
getAttributes(options) ==
  IF options.fields # None /\ "id" \notin Elems(options.fields[1])
  THEN Some(Append(options.fields[1], "id"))
  ELSE options.fields

\* get(url, id, options, filter): the query handed to findOne and the
\* resource (or null) returned.
get(tbl, url, id, options, filter) ==
  LET includeRelationships == values(getInclude(options, "relationship"))
      query == [where |-> Some(SpreadId(id, filter)),
                attributes |-> getAttributes(options),
                include |-> Some(includeRelationships)]
      result == findOne(tbl, query)
      resource == Resource(Append(url, ToString(id)), result[1])
  IN [query |-> query,
      selected |-> Matching(tbl, query.where),
      result |-> IF result = None THEN None
                 ELSE IF Len(includeRelationships) > 0
                 THEN Some(flatten(convertFromInstance(resource,
                              getInclude(options, "link")[1])))
                 ELSE Some(resource)]

(***************************************************************************)
(* translateFilter.  The call stack is bounded, as the engine's is: a call *)
(* deeper than MaxStack ends in a RangeError.                              *)
(***************************************************************************)
Where(col, pattern) ==
  [kind |-> "where", fn |-> "lower", col |-> col, ops |-> ("$like" :> pattern)]

\* The outcome of a call of translateFilter: the error thrown or the value
\* returned, and what the call leaves in the object it was given.
Thrown(e, after) == [error |-> e, value |-> None, after |-> after]

Returned(v, after) == [error |-> "", value |-> v, after |-> after]

\* The first error of a list of results, "" when there is none.
FirstError(results) ==
  IF \E i \in 1..Len(results) : results[i].error # ""
  THEN results[CHOOSE i \in 1..Len(results) :
                 /\ results[i].error # ""
                 /\ \A j \in 1..(i - 1) : results[j].error = ""].error
  ELSE ""

\* The index of the first of a list of calls that throws, 0 when none does.
FirstThrown(results) ==
  IF FirstError(results) = "" THEN 0
  ELSE CHOOSE i \in 1..Len(results) :
         /\ results[i].error # ""
         /\ \A j \in 1..(i - 1) : results[j].error = ""

\* The children of $and or $or after children.map(translateFilter): map
\* stops at the first call that throws, the later children are not reached;
\* the children before are the same objects as they were left.
Mapped(children, results) ==
  IF children = None THEN None
  ELSE Some([i \in 1..Len(results) |->
               IF FirstThrown(results) = 0 \/ i <= FirstThrown(results)
               THEN results[i].after[1] ELSE children[1][i]])

\* The number of own keys of a filter object.
KeyCount(f) ==
  Cardinality(DOMAIN f.leaf) + Len(f.and) + Len(f.or) + Len(f.not)

\* The loop over the keys of the filter: a plain-object value with more than
\* one key is refused; a truthy $like becomes lower(col) LIKE lower(pattern).
TooComplex(f) ==
  \/ \E k \in DOMAIN f.leaf :
       f.leaf[k].kind = "object" /\ Cardinality(DOMAIN f.leaf[k].ops) > 1
  \/ f.not # None /\ KeyCount(f.not[1]) > 1

RewriteLike(k, lv) ==
  IF lv.kind = "object" /\ "$like" \in DOMAIN lv.ops /\ lv.ops["$like"] # <<>>
  THEN Where(k, toLowerCase(lv.ops["$like"]))
  ELSE lv

RECURSIVE translateFilterAt(_, _, _)
\* translateFilter(filter, extra) called at stack depth `depth`.  It assigns
\* to filter.$and, filter.$or, filter.$not and filter[k] of the object it is
\* given, and returns that object; a call that throws leaves what it had
\* written until then.  (A refused key ends the loop over the keys; the
\* filters called with give an object with a refused key no other key.)
translateFilterAt(filter, extra, depth) ==
  IF depth > MaxStack THEN Thrown("RangeError", filter)
  ELSE IF filter = None THEN Returned(extra, None)
  ELSE
    LET f == filter[1]
        ands == IF f.and = None THEN <<>>
                ELSE [i \in 1..Len(f.and[1]) |->
                        translateFilterAt(Some(f.and[1][i]), None, depth + 1)]
        ors == IF f.or = None THEN <<>>
               ELSE [i \in 1..Len(f.or[1]) |->
                       translateFilterAt(Some(f.or[1][i]), None, depth + 1)]
        f0 == [f EXCEPT !.and = Mapped(f.and, ands)]
        f1 == [f0 EXCEPT !.or = Mapped(f.or, ors)]
        \* filter.$not = translateFilter(filter): the filter itself again.
        nots == IF f.not = None THEN Returned(None, None)
                ELSE translateFilterAt(Some(f1), None, depth + 1)
        f2 == [f1 EXCEPT !.not = nots.value]
        f3 == [f2 EXCEPT !.leaf = [k \in DOMAIN f2.leaf |->
                                     RewriteLike(k, f2.leaf[k])]]
    IN IF FirstError(ands) # "" THEN Thrown(FirstError(ands), Some(f0))
       ELSE IF FirstError(ors) # "" THEN Thrown(FirstError(ors), Some(f1))
       ELSE IF nots.error # "" THEN Thrown(nots.error, nots.after)
       ELSE IF TooComplex(f2) THEN Thrown("filter key query is too complex", Some(f2))
       ELSE IF extra # None
       THEN Returned(Some([and |-> Some(<<f3, extra[1]>>), or |-> None,
                           not |-> None, leaf |-> EmptyMap]), Some(f3))
       ELSE Returned(Some(f3), Some(f3))

translateFilter(filter, extra) == translateFilterAt(filter, extra, 1)

(***************************************************************************)
(* list.                                                                   *)
(***************************************************************************)
\* Math.ceil(count / size), size >= 1
Ceil(count, size) == (count + size - 1) \div size

\* _getSortOptions(options)
getSortOptions(options) ==
  IF options.sort = None THEN None
  ELSE Some([i \in 1..Len(options.sort[1]) |->
               [key |-> options.sort[1][i].key,
                order |-> IF options.sort[1][i].direction = 1
                          THEN "ASC" ELSE "DESC"]])

\* model.findAndCountAll(query): the page of the matching rows, in id order
\* unless the order says id DESC, and the number of all matching rows.
findAndCountAll(tbl, query) ==
  LET all == SortById(Matching(tbl, query.where))
      desc == /\ query.order # None
              /\ Len(query.order[1]) > 0
              /\ query.order[1][1] = [key |-> "id", order |-> "DESC"]
      ordered == IF desc THEN Reverse(all) ELSE all
      from == query.offset + 1
      to == IF query.offset + query.limit < Len(ordered)
            THEN query.offset + query.limit ELSE Len(ordered)
  IN [count |-> Len(all),
      rows |-> [i \in 1..(IF to >= from THEN to - from + 1 ELSE 0) |->
                  Instance(ordered[from + i - 1], query)]]

\* options.clone({page: {number}}): the options as they are at the time of
\* the call, with the page number replaced.
clone(options, number) == [options EXCEPT !.page.number = number]

\* url + options.clone({page: {number}}).toString(): the URL and what the
\* query string is written from, the content of the cloned options.
PageLink(url, options, number) ==
  [url |-> url, page |-> number, query |-> clone(options, number)]

\* _getPageLinks with the last page still offering a next one.
getPageLinksOffByOne(url, options, pageNumber, pageCount) ==
  ("$first" :> PageLink(url, options, 1))
  @@ ("$last" :> PageLink(url, options, pageCount))
  @@ (IF pageNumber > 1
      THEN "$previous" :> PageLink(url, options, pageNumber - 1) ELSE EmptyMap)
  @@ (IF pageNumber <= pageCount
      THEN "$next" :> PageLink(url, options, pageNumber + 1) ELSE EmptyMap)

\* _getPageLinks(url, options, pageNumber, pageCount)
getPageLinks(url, options, pageNumber, pageCount) ==
  ("$first" :> PageLink(url, options, 1))
  @@ ("$last" :> PageLink(url, options, pageCount))
  @@ (IF pageNumber > 1
      THEN "$previous" :> PageLink(url, options, pageNumber - 1) ELSE EmptyMap)
  @@ (IF pageNumber < pageCount
      THEN "$next" :> PageLink(url, options, pageNumber + 1) ELSE EmptyMap)

\* list: the projection, with id pushed when the field list lacks it.
listAttributes(options) ==
  IF options.fields # None /\ "id" \notin Elems(options.fields[1])
  THEN Some(Append(options.fields[1], "id"))
  ELSE options.fields

RECURSIVE Concat(_)
Concat(ss) == IF ss = <<>> THEN <<>> ELSE Head(ss) \o Concat(Tail(ss))

\* resource.flatten() of a collection: every element is flattened and the
\* elements' includes are gathered in the collection's.
flattenCollection(resource) ==
  LET flat == [i \in 1..Len(resource.elements) |-> flatten(resource.elements[i])]
  IN [resource EXCEPT
        !.elements = [i \in 1..Len(flat) |-> [flat[i] EXCEPT !.includes = <<>>]],
        !.includes = Concat([i \in 1..Len(flat) |-> flat[i].includes])]

\* The accessors of the options, options.filter() and options.fieldsFor():
\* each hands out either the object the options hold or a copy of it.
Sharing == [filter : BOOLEAN, fields : BOOLEAN]

Copies == [filter |-> FALSE, fields |-> FALSE]

\* The ways the accessors can differ for given options: options without a
\* filter, or without a field list, have nothing to hand out.
Shareable(options) ==
  {s \in Sharing : /\ s.filter => options.filter # None
                   /\ s.fields => options.fields # None}

\* The content of the options after lines 46-56 of list, where is what
\* translateFilter answered: it has written into the object options.filter()
\* gave it, and id was pushed onto the array options.fieldsFor('$self') gave,
\* unless translateFilter threw before the array was asked for.
listOptions(options, shared, where) ==
  [options EXCEPT
     !.filter = IF shared.filter THEN where.after ELSE @,
     !.fields = IF shared.fields /\ where.error = ""
                THEN listAttributes(options) ELSE @]

\* The content of the options after lines 98-103 of get.
getOptions(options, shared) ==
  [options EXCEPT !.fields = IF shared.fields THEN getAttributes(options) ELSE @]

\* list(url, options, filter): the query handed to findAndCountAll, the
\* collection resource returned, or the error thrown, and the content of the
\* options afterwards.
list(tbl, url, options, filter, shared) ==
  LET page == options.page
      includeRelationships == values(getInclude(options, "relationship"))
      where == translateFilter(options.filter, filter)
      after == listOptions(options, shared, where)
      query == [limit |-> page.size,
                offset |-> (page.number - 1) * page.size,
                where |-> where.value,
                attributes |-> listAttributes(options),
                order |-> getSortOptions(options),
                include |-> Some(includeRelationships)]
      result == findAndCountAll(tbl, query)
      pageCount == Ceil(result.count, page.size)
      elements == [i \in 1..Len(result.rows) |->
                     Resource(Append(url, "<%=id%>"), result.rows[i])]
      resource == [self |-> url, elements |-> elements,
                   meta |-> [count |-> result.count,
                             page |-> [number |-> page.number,
                                       size |-> page.size,
                                       count |-> pageCount]],
                   links |-> getPageLinks(url, after, page.number, pageCount),
                   includes |-> <<>>]
      includeLinks == getInclude(options, "link")[1]
  IN IF where.error # ""
     THEN [error |-> where.error, query |-> None, result |-> None,
           after |-> after]
     ELSE [error |-> "", query |-> Some(query), after |-> after,
           result |-> IF Len(includeRelationships) > 0
                      THEN Some(flattenCollection(
                             [resource EXCEPT !.elements =
                                [i \in 1..Len(elements) |->
                                   convertFromInstance(elements[i],
                                                       includeLinks)]]))
                      ELSE Some(resource)]

(***************************************************************************)
(* Storage statements that write.                                          *)
(***************************************************************************)
UniqueIds(tbl) == \A r, q \in tbl : r.id = q.id => r = q

\* model.update(values, {where}): every matching row takes the values; a
\* statement that would duplicate a primary key fails and changes nothing.
modelUpdate(tbl, attributes, where) ==
  LET matched == Matching(tbl, where)
      written == (tbl \ matched) \cup {attributes @@ r : r \in matched}
      clash == \/ ~UniqueIds(written)
               \/ Cardinality(written) # Cardinality(tbl)
  IN IF clash
     THEN [error |-> "SequelizeUniqueConstraintError", rows |-> tbl,
           selected |-> {}, count |-> 0, results |-> <<>>]
     ELSE [error |-> "", rows |-> written, selected |-> matched,
           count |-> Cardinality(matched),
           results |-> SortById({attributes @@ r : r \in matched})]

\* model.create(values): the id is the one given or the next of the serial.
modelCreate(tbl, attributes, serial) ==
  LET row == attributes @@ ("id" :> serial)
  IN IF \E r \in tbl : r.id = row.id
     THEN [error |-> "SequelizeUniqueConstraintError", rows |-> tbl,
           entity |-> None]
     ELSE [error |-> "", rows |-> tbl \cup {row}, entity |-> Some(row)]

\* model.destroy({where})
modelDestroy(tbl, where) ==
  [rows |-> tbl \ Matching(tbl, where), selected |-> Matching(tbl, where),
   count |-> Cardinality(Matching(tbl, where))]

(***************************************************************************)
(* create, update, delete.                                                 *)
(***************************************************************************)
\* The pre-check left out: no payload is refused.
ViolatesUnchecked(attributes, constraints) == FALSE

\* if (constraints) { if (!filtr(constraints).test(payload.attributes)) throw }
Violates(attributes, constraints) ==
  constraints # None /\ ~filtrTest(constraints[1], attributes)

\* create(url, payload, constraints)
create(tbl, url, attributes, constraints, serial) ==
  IF Violates(attributes, constraints)
  THEN [error |-> "constraint violation", rows |-> tbl, result |-> None]
  ELSE LET made == modelCreate(tbl, attributes, serial)
       IN IF made.error # ""
          THEN [error |-> made.error, rows |-> tbl, result |-> None]
          ELSE [error |-> "", rows |-> made.rows,
                result |-> Some(Resource(Append(url, "<%=id>"), made.entity[1]))]

\* update(url, id, payload, constraints) up to the answer of model.update.
\* returning: the engine answers [count, rows]; otherwise [undefined, count]
\* and the row is fetched again by id after an await.
update(tbl, url, id, attributes, constraints, returning) ==
  IF Violates(attributes, constraints)
  THEN [error |-> "constraint violation", rows |-> tbl, where |-> None,
        selected |-> {}, result |-> None, refetch |-> FALSE, nrows |-> 0]
  ELSE LET where == Some(SpreadId(id, constraints))
           done == modelUpdate(tbl, attributes, where)
       IN IF done.error # ""
          THEN [error |-> done.error, rows |-> tbl, where |-> where,
                selected |-> {}, result |-> None, refetch |-> FALSE, nrows |-> 0]
          ELSE [error |-> "", rows |-> done.rows, where |-> where,
                selected |-> done.selected,
                refetch |-> ~returning, nrows |-> done.count,
                result |-> IF returning /\ done.count # 0
                           THEN Some(Resource(url, done.results[1]))
                           ELSE None]

\* The rest of update on an engine without returning: the re-fetch by id,
\* then the answer from nrows and results[0].get().
updateRefetch(tbl, url, id, nrows) ==
  LET results == findOne(tbl, [where |-> Some(Filter("id" :> Scalar(id))),
                               attributes |-> None, include |-> None])
  IN IF nrows = 0 THEN [error |-> "", result |-> None]
     ELSE IF results = None THEN [error |-> "TypeError", result |-> None]
     ELSE [error |-> "", result |-> Some(Resource(url, results[1]))]

\* delete(id, filter)
delete(tbl, id, filter) ==
  LET where == Some(SpreadId(id, filter))
      done == modelDestroy(tbl, where)
  IN [where |-> where, rows |-> done.rows, selected |-> done.selected,
      result |-> done.count]

(***************************************************************************)
(* The inputs the calls are made with.                                     *)
(***************************************************************************)
\* The maps that give column k one of vals, or leave it out.
Column(k, vals, keys) ==
  {EmptyMap} \cup (IF k \in keys THEN {k :> v : v \in vals} ELSE {})

\* Attribute maps: every column of keys is given or left out.
AttributeMaps(keys) ==
  {i @@ n @@ g : i \in Column("id", Ids, keys),
                 n \in Column("name", Names, keys),
                 g \in Column("groupId", GroupIds, keys)}

Payloads == AttributeMaps({"id", "name", "groupId"})

\* Constraint maps (column -> value), also over the id column; or none.
Constraints ==
  {None} \cup
  {Some(Filter([k \in DOMAIN m |-> Scalar(m[k])])) :
     m \in AttributeMaps({"id", "groupId"})}

Options(fields, include) ==
  [page |-> [number |-> 1, size |-> 1], fields |-> fields, include |-> include,
   filter |-> None, sort |-> None]

\* The options of the calls made beside the writes.
PlainOptions == {Options(None, None), Options(Some(<<"name">>), None)}

NoCall == [op |-> "none"]

(***************************************************************************)
(* The state: rows, the table; nextId, the table's serial; last, the call  *)
(* that has just answered and its answer, until the caller takes it.       *)
(***************************************************************************)
Init ==
  /\ rows = {}
  /\ nextId = 1
  /\ last = NoCall

Get ==
  /\ last = NoCall
  /\ \E url \in Urls, id \in Ids, options \in PlainOptions, filter \in Constraints :
       LET got == get(rows, url, id, options, filter)
       IN last' = [op |-> "get", url |-> url, id |-> id, options |-> options,
                   constraints |-> filter, query |-> got.query,
                   selected |-> got.selected, error |-> "",
                   result |-> got.result]
  /\ UNCHANGED <<rows, nextId>>

Create ==
  /\ last = NoCall
  /\ \E attributes \in Payloads, constraints \in Constraints :
       LET auto == "id" \notin DOMAIN attributes
           made == create(rows, Url, attributes, constraints, nextId)
       IN /\ auto => nextId <= MaxId
          /\ rows' = made.rows
          /\ nextId' = IF auto /\ made.error # "constraint violation"
                       THEN nextId + 1 ELSE nextId
          /\ last' = [op |-> "create", url |-> Url, attributes |-> attributes,
                      constraints |-> constraints, error |-> made.error,
                      result |-> made.result]

Update ==
  /\ last = NoCall
  /\ \E id \in Ids, attributes \in Payloads, constraints \in Constraints,
        returning \in BOOLEAN :
       LET done == update(rows, Url, id, attributes, constraints, returning)
           rest == updateRefetch(done.rows, Url, id, done.nrows)
       IN /\ rows' = done.rows
          /\ last' = [op |-> "update", url |-> Url, id |-> id,
                      attributes |-> attributes, constraints |-> constraints,
                      returning |-> returning, where |-> done.where,
                      selected |-> done.selected, nrows |-> done.nrows,
                      error |-> IF done.refetch THEN rest.error ELSE done.error,
                      result |-> IF done.refetch THEN rest.result
                                 ELSE done.result]
  /\ UNCHANGED nextId

Delete ==
  /\ last = NoCall
  /\ \E id \in Ids, filter \in Constraints :
       LET done == delete(rows, id, filter)
       IN /\ rows' = done.rows
          /\ last' = [op |-> "delete", id |-> id, constraints |-> filter,
                      where |-> done.where, selected |-> done.selected,
                      error |-> "", result |-> done.result]
  /\ UNCHANGED nextId

\* The caller takes the answer.
Return ==
  /\ last # NoCall
  /\ last' = NoCall
  /\ UNCHANGED <<rows, nextId>>

Next ==
  \/ Get
  \/ Create
  \/ Update
  \/ Delete
  \/ Return

Spec == Init /\ [][Next]_vars

TypeOK ==
  /\ UniqueIds(rows)
  /\ nextId \in 1..(MaxId + 1)

(***************************************************************************)
(* Queries: list and get with filters, pages, field lists and includes,    *)
(* on a table of up to three users.                                        *)
(***************************************************************************)
Fred == [id |-> 1, name |-> <<"F", "r">>, groupId |-> 1]

Wilma == [id |-> 2, name |-> <<"W", "i">>]

Pebbles == [id |-> 3, name |-> <<"w", "i">>, groupId |-> 2]

QueryTables == SUBSET {Fred, Wilma, Pebbles}

QueryIds == {1, 2, 3}

Like_(pattern) == Object("$like" :> pattern)

\* Filters of one object without combinators.
Atoms ==
  {Filter("name" :> Scalar(<<"W", "i">>)),
   Filter("name" :> Like_(<<"w", "%">>)),
   Filter("name" :> Like_(<<"W", "%">>)),
   Filter("name" :> Like_(<<>>)),
   Filter("name" :> Object("$ne" :> <<"W", "i">>)),
   Filter("groupId" :> Scalar(1)),
   Filter(("name" :> Like_(<<"%", "I">>)) @@ ("groupId" :> Scalar(2))),
   Filter("name" :> Object(("$like" :> <<"w", "%">>) @@ ("$ne" :> <<"w", "i">>)))}

And_(children) == [Filter(EmptyMap) EXCEPT !.and = Some(children)]

Or_(children) == [Filter(EmptyMap) EXCEPT !.or = Some(children)]

Not_(child) == [Filter(EmptyMap) EXCEPT !.not = Some(child)]

Pairs == {<<a, b>> : a, b \in Atoms}

\* Filter trees of depth one and two.
Filters ==
  Atoms
  \cup {And_(p) : p \in Pairs}
  \cup {Or_(p) : p \in Pairs}
  \cup {Not_(a) : a \in Atoms}
  \cup {[And_(<<a>>) EXCEPT !.leaf = ("groupId" :> Scalar(1))] : a \in Atoms}
  \cup {And_(<<Or_(<<a, Filter("groupId" :> Scalar(1))>>), a>>) : a \in Atoms}
  \cup {Or_(<<And_(<<a>>), Not_(a)>>) : a \in Atoms}

QueryConstraints ==
  {None, Some(Filter("groupId" :> Scalar(1))), Some(Filter("groupId" :> Scalar(2)))}

FieldLists ==
  {None, Some(<<>>), Some(<<"name">>), Some(<<"id", "name">>),
   Some(<<"name", "groupId">>)}

Includes ==
  {None, Some(<<"group">>), Some(<<"posts">>), Some(<<"group", "posts">>),
   Some(<<"other">>)}

Sorts == {None, Some(<<[key |-> "id", direction |-> -1]>>)}

Pages == [number : 1..MaxPage, size : {1, 2}]

\* Calls that vary the filter, and calls that vary the rest.
FilterOptions ==
  {[page |-> [number |-> 1, size |-> 2], fields |-> None, include |-> None,
    filter |-> Some(f), sort |-> None] : f \in Filters}

ShapeOptions ==
  [page : Pages, fields : FieldLists, include : Includes,
   filter : {None, Some(Filter("name" :> Like_(<<"W", "%">>)))}, sort : Sorts]

FieldOptions ==
  [page : {[number |-> 1, size |-> 2]}, fields : FieldLists, include : Includes,
   filter : {None}, sort : {None}]

\* The calls of list: the accessors' sharing is varied for the calls that
\* vary the filter and for the calls that vary the field list.
ListCalls ==
  UNION {{[options |-> o, shared |-> s] : s \in Shareable(o)} :
           o \in FilterOptions \cup FieldOptions}
  \cup {[options |-> o, shared |-> Copies] : o \in ShapeOptions}

InitQuery ==
  /\ rows \in QueryTables
  /\ nextId = 4
  /\ last = NoCall

List ==
  /\ last = NoCall
  /\ \E call \in ListCalls, filter \in QueryConstraints :
       last' = [op |-> "list", url |-> <<"users">>, options |-> call.options,
                constraints |-> filter, shared |-> call.shared]
               @@ list(rows, <<"users">>, call.options, filter, call.shared)
  /\ UNCHANGED <<rows, nextId>>

GetQuery ==
  /\ last = NoCall
  /\ \E id \in QueryIds, options \in FieldOptions, filter \in QueryConstraints :
     \E shared \in Shareable(options) :
       LET got == get(rows, Url, id, options, filter)
       IN last' = [op |-> "get", url |-> Url, id |-> id, options |-> options,
                   constraints |-> filter, query |-> got.query,
                   selected |-> got.selected, error |-> "",
                   result |-> got.result,
                   shared |-> shared, after |-> getOptions(options, shared)]
  /\ UNCHANGED <<rows, nextId>>

NextQuery ==
  \/ List
  \/ GetQuery
  \/ Return

SpecQuery == InitQuery /\ [][NextQuery]_vars

(***************************************************************************)
(* What the claims speak of.                                               *)
(***************************************************************************)
\* Row (or attribute map) r satisfies constraint map C: every column C names
\* has C's value in r.  No constraint is satisfied by every row.
Satisfies(r, C) ==
  C = None \/ \A k \in DOMAIN C[1].leaf :
                 k \in DOMAIN r /\ r[k] = C[1].leaf[k].v

\* The rows {id} AND C selects.
Selected(tbl, id, C) == {r \in tbl : r.id = id /\ Satisfies(r, C)}

Answered(op) == last # NoCall /\ last.op = op

\* C2: the row that get returns, that update modifies or that delete removes
\* has the id argument as its id and satisfies the constraint, also when the
\* constraint map has an id key of its own.
C2_SelectsIdAndConstraint ==
  (last # NoCall /\ last.op \in {"get", "update", "delete"}) =>
    /\ \A r \in last.selected :
         r.id = last.id /\ Satisfies(r, last.constraints)
    /\ (last.op = "get" /\ last.result # None) =>
         last.result[1].attributes.id = last.id

\* C3: get answers null when no stored row has the id and when the row with
\* the id fails the constraint, and tables that differ only in rows failing
\* the constraint give the same answer.
C3_NotFoundEquivalence ==
  Answered("get") =>
    /\ Selected(rows, last.id, last.constraints) = {} =>
         (last.result = None /\ last.error = "")
    /\ last.result =
         get({r \in rows : Satisfies(r, last.constraints)}, last.url, last.id,
             last.options, last.constraints).result

\* C4: a create or update whose payload attributes do not satisfy the
\* constraint fails with the constraint-violation error and changes no row.
C4_ViolationNoMutation ==
  [][(last' # NoCall /\ last'.op \in {"create", "update"}
        /\ ~Satisfies(last'.attributes, last'.constraints))
     => (/\ last'.error = "constraint violation"
         /\ last'.result = None
         /\ rows' = rows)]_vars

\* C4's case: an update of a stored row's id was refused, and a create was.
C4_Witness ==
  /\ Answered("update")
  /\ last.error = "constraint violation"
  /\ ~Satisfies(last.attributes, last.constraints)
  /\ \E r \in rows : r.id = last.id /\ Satisfies(r, last.constraints)

\* C5: an update whose payload satisfies the constraint, made when {id} AND
\* constraint selects no stored row, answers null and changes no row.
C5_UpdateNotFound ==
  [][(last' # NoCall /\ last'.op = "update"
        /\ Satisfies(last'.attributes, last'.constraints)
        /\ Selected(rows, last'.id, last'.constraints) = {})
     => (/\ last'.error = ""
         /\ last'.result = None
         /\ rows' = rows)]_vars

\* C6: delete removes exactly the rows {id} AND constraint selects and
\* answers their number, 0 and no change when there is none.
C6_DeleteExactly ==
  [][(last' # NoCall /\ last'.op = "delete")
     => (/\ rows' = rows \ Selected(rows, last'.id, last'.constraints)
         /\ last'.result =
              Cardinality(Selected(rows, last'.id, last'.constraints))
         /\ last'.error = "")]_vars

\* C10: a get that finds a row answers a resource with the row as its
\* attributes and the URL it was given, as given, as its $self link.
C10_GetSelfIsUrl ==
  (Answered("get") /\ last.result # None) =>
    /\ SelfLink(last.result[1]) = last.url
    /\ \E r \in rows :
         last.result[1].attributes =
           (IF last.query.attributes = None THEN r
            ELSE Restrict(r, Elems(last.query.attributes[1])))

RECURSIVE ValidFilter(_)
\* The filter predicates of the data model: no leaf combines operators.
ValidFilter(f) ==
  /\ \A k \in DOMAIN f.leaf :
       f.leaf[k].kind = "object" => Cardinality(DOMAIN f.leaf[k].ops) <= 1
  /\ f.and # None => \A i \in 1..Len(f.and[1]) : ValidFilter(f.and[1][i])
  /\ f.or # None => \A i \in 1..Len(f.or[1]) : ValidFilter(f.or[1][i])
  /\ f.not # None => ValidFilter(f.not[1])

\* Row r satisfies filter F as the caller means it: $like ignores case.
SatisfiesFilter(r, F) == F = None \/ EvalWith(F[1], r, TRUE)

\* The rows the predicates are compared on: every name and group, and NULLs.
RowSamples ==
  {n @@ g @@ ("id" :> 1) :
     n \in {EmptyMap} \cup {"name" :> v : v \in {<<"W", "i">>, <<"w", "i">>,
                                                  <<"F", "r">>, <<>>}},
     g \in {EmptyMap} \cup {"groupId" :> v : v \in GroupIds}}

\* C1: the predicate list hands to storage is satisfied by a row exactly when
\* the row satisfies the filter and the constraint, for every filter
\* predicate and constraint map; so list returns no row that fails the
\* constraint.
C1_ConstraintIsolation ==
  (Answered("list") /\ last.options.filter # None
     /\ ValidFilter(last.options.filter[1])) =>
    /\ last.error = ""
    /\ last.query # None
    /\ last.query[1].where # None
    /\ \A r \in RowSamples :
         Eval(last.query[1].where[1], r)
           <=> (SatisfiesFilter(r, last.options.filter)
                /\ Satisfies(r, last.constraints))
    /\ \A i \in 1..Len(last.result[1].elements) :
         \E r \in rows :
           /\ r.id = last.result[1].elements[i].attributes.id
           /\ Satisfies(r, last.constraints)

RECURSIVE HasNot(_)
HasNot(f) ==
  \/ f.not # None
  \/ f.and # None /\ \E i \in 1..Len(f.and[1]) : HasNot(f.and[1][i])
  \/ f.or # None /\ \E i \in 1..Len(f.or[1]) : HasNot(f.or[1][i])

\* C1 for the filters without a $not combinator.
C1_WithoutNot ==
  (Answered("list") /\ last.options.filter # None
     /\ ~HasNot(last.options.filter[1])) => C1_ConstraintIsolation

\* C8: pageCount = ceil(T / S) for T matching rows and page size S; the links
\* always have $first and $last, $previous exactly when pageNumber > 1 and
\* $next exactly when pageNumber < pageCount.
C8_PageLinks ==
  (Answered("list") /\ last.error = "") =>
    LET T == Cardinality({r \in rows : last.query[1].where = None
                                        \/ Eval(last.query[1].where[1], r)})
        S == last.options.page.size
        n == last.options.page.number
        N == last.result[1].meta.page.count
        links == DOMAIN last.result[1].links
    IN /\ N * S >= T /\ (N - 1) * S < T
       /\ last.result[1].meta.count = T
       /\ {"$first", "$last"} \subseteq links
       /\ "$previous" \in links <=> n > 1
       /\ "$next" \in links <=> n < N
       /\ (n = 1 /\ N > 1) => ("$next" \in links /\ "$previous" \notin links)
       /\ (n = N /\ N > 1) => ("$previous" \in links /\ "$next" \notin links)
       /\ (n = 1 /\ N = 1) => ("$previous" \notin links /\ "$next" \notin links)

\* C8's case: the last of several pages was listed.
C8_Witness ==
  /\ Answered("list")
  /\ last.error = ""
  /\ last.result[1].meta.page.count > 1
  /\ last.options.page.number = last.result[1].meta.page.count
  /\ "$previous" \in DOMAIN last.result[1].links

\* C9: a list or get with a field list P runs the projection P with id
\* appended when P lacks id, and P itself, without a second id, when P has it.
C9_ProjectionHasId ==
  (last # NoCall /\ last.op \in {"list", "get"} /\ last.error = ""
     /\ last.options.fields # None) =>
    LET P == last.options.fields[1]
        query == IF last.op = "list" THEN last.query[1] ELSE last.query
    IN /\ query.attributes # None
       /\ Elems(query.attributes[1]) = Elems(P) \cup {"id"}
       /\ "id" \in Elems(P) => query.attributes[1] = P
       /\ "id" \notin Elems(P) => query.attributes[1] = Append(P, "id")

\* C9's case: a get with a field list without id found its row.
C9_Witness ==
  /\ Answered("get")
  /\ last.options.fields # None
  /\ "id" \notin Elems(last.options.fields[1])
  /\ last.result # None
  /\ "id" \in DOMAIN last.result[1].attributes

\* The resources of an answer that stand for rows: the elements of a list,
\* the resource of a get.
Parents(call) ==
  IF call.op = "list" THEN call.result[1].elements ELSE <<call.result[1]>>

\* The requested relationships that are registered.
Requested(call) ==
  IF call.options.include = None THEN {}
  ELSE Elems(call.options.include[1]) \cap DOMAIN relationships

\* The related rows the engine loads for a row under relationship k.
Sources(r, k) ==
  LET v == Joined(r, relationships[k].relationship)
  IN IF v = None THEN <<>>
     ELSE IF v[1].kind = "entities" THEN v[1].items ELSE <<v[1].data>>

RECURSIVE Sum(_, _)
Sum(f, S) ==
  IF S = {} THEN 0
  ELSE LET x == CHOOSE y \in S : TRUE IN f[x] + Sum(f, S \ {x})

C11_CreateSelfLink ==
  (last # NoCall /\ last.op = "create" /\ last.error = "") =>
    /\ last.result # None
    /\ last.result[1].attributes \in rows
    /\ SelfLink(last.result[1]) =
         Append(last.url, ToString(last.result[1].attributes.id))

RECURSIVE Rewritten(_)
\* The predicate a filter tree stands for once every node is rewritten: the
\* children of $and and $or and the child of $not one by one, every truthy
\* $like into lower(column) LIKE lower(pattern).
Rewritten(f) ==
  [and |-> IF f.and = None THEN None
           ELSE Some([i \in 1..Len(f.and[1]) |-> Rewritten(f.and[1][i])]),
   or |-> IF f.or = None THEN None
          ELSE Some([i \in 1..Len(f.or[1]) |-> Rewritten(f.or[1][i])]),
   not |-> IF f.not = None THEN None ELSE Some(Rewritten(f.not[1])),
   leaf |-> [k \in DOMAIN f.leaf |-> RewriteLike(k, f.leaf[k])]]

\* The predicate of a filter and a constraint: the constraint joined once, at
\* the top.
Conjoined(F, C) ==
  IF F = None THEN C
  ELSE IF C = None THEN Some(Rewritten(F[1]))
  ELSE Some([and |-> Some(<<Rewritten(F[1]), C[1]>>), or |-> None,
             not |-> None, leaf |-> EmptyMap])

\* C12: for every filter tree, also one with a $not combinator, translation
\* ends and gives list its predicate: every child of $and and $or and the
\* child of $not rewritten by its own translation, the constraint joined once
\* at the top.
C12_TranslateTerminates ==
  (Answered("list") /\ last.options.filter # None
     /\ ValidFilter(last.options.filter[1])) =>
    /\ last.error # "RangeError"
    /\ last.query # None
    /\ last.query[1].where = Conjoined(last.options.filter, last.constraints)

\* C12 for the filters without a $not combinator.
C12_WithoutNot ==
  (Answered("list") /\ last.options.filter # None
     /\ ~HasNot(last.options.filter[1])) => C12_TranslateTerminates

\* C13: after a list or a get the options hold what they held before the
\* call, the filter and the field list alike, and every page link of a list
\* is written from the filter and the field list the caller gave.
C13_OptionsUnmodified ==
  (last # NoCall /\ last.op \in {"list", "get"}) =>
    /\ last.after.filter = last.options.filter
    /\ last.after.fields = last.options.fields
    /\ (last.op = "list" /\ last.error = "") =>
         \A k \in DOMAIN last.result[1].links :
           /\ last.result[1].links[k].query.filter = last.options.filter
           /\ last.result[1].links[k].query.fields = last.options.fields

\* C13 when both accessors hand out copies.
C13_WhenCopied ==
  (last # NoCall /\ last.op \in {"list", "get"} /\ last.shared = Copies)
    => C13_OptionsUnmodified

(***************************************************************************)
(* update on an engine that does not return the updated rows, among other  *)
(* callers: the statement and the re-fetch are two storage steps with an   *)
(* await between them, and the statements of other calls may run there.    *)
(* The constraint maps have no id key, so that the where clause of the     *)
(* statement is the id argument and the constraint.                        *)
(***************************************************************************)
RacePayloads == AttributeMaps({"name", "groupId"})

RaceConstraints ==
  {None} \cup {Some(Filter("groupId" :> Scalar(g))) : g \in GroupIds}

RaceTables ==
  {t \in SUBSET {[id |-> 1, groupId |-> 1], [id |-> 1, groupId |-> 2],
                 [id |-> 2, groupId |-> 1], [id |-> 2]} : UniqueIds(t)}

InitRace ==
  /\ rows \in RaceTables
  /\ nextId = MaxId + 1
  /\ last = NoCall

\* update up to the answer of model.update (lines 148-158); the call then
\* awaits its re-fetch, unless the pre-check threw.
UpdateStatement ==
  /\ last = NoCall
  /\ \E id \in Ids, attributes \in RacePayloads, constraints \in RaceConstraints :
       LET done == update(rows, Url, id, attributes, constraints, FALSE)
       IN /\ rows' = done.rows
          /\ last' = [op |-> "update",
                      pc |-> IF done.refetch THEN "refetch" ELSE "done",
                      url |-> Url, id |-> id, attributes |-> attributes,
                      constraints |-> constraints, nrows |-> done.nrows,
                      raced |-> FALSE, error |-> done.error, result |-> None]
  /\ UNCHANGED nextId

\* The statement of another caller's update runs while the call awaits.
ConcurrentUpdate ==
  /\ last # NoCall
  /\ last.pc = "refetch"
  /\ \E id \in Ids, attributes \in RacePayloads, constraints \in RaceConstraints :
       rows' = update(rows, Url, id, attributes, constraints, TRUE).rows
  /\ last' = [last EXCEPT !.raced = TRUE]
  /\ UNCHANGED nextId

\* The statement of another caller's delete runs while the call awaits.
ConcurrentDelete ==
  /\ last # NoCall
  /\ last.pc = "refetch"
  /\ \E id \in Ids, filter \in RaceConstraints :
       rows' = delete(rows, id, filter).rows
  /\ last' = [last EXCEPT !.raced = TRUE]
  /\ UNCHANGED nextId

\* The rest of update (lines 160-170): the re-fetch by id and the answer.
UpdateRefetch ==
  /\ last # NoCall
  /\ last.pc = "refetch"
  /\ LET rest == updateRefetch(rows, last.url, last.id, last.nrows)
     IN last' = [last EXCEPT !.pc = "done", !.error = rest.error,
                             !.result = rest.result]
  /\ UNCHANGED <<rows, nextId>>

\* The caller takes the answer of the update.
ReturnUpdate ==
  /\ last # NoCall
  /\ last.pc = "done"
  /\ last' = NoCall
  /\ UNCHANGED <<rows, nextId>>

NextRace ==
  \/ UpdateStatement
  \/ ConcurrentUpdate
  \/ ConcurrentDelete
  \/ UpdateRefetch
  \/ ReturnUpdate

SpecRace == InitRace /\ [][NextRace]_vars

\* The answer of an update that went through its re-fetch.
Refetched == last # NoCall /\ last.pc = "done" /\ last.error # "constraint violation"

\* C14: whatever statements of other callers run between the statement of an
\* update and its re-fetch, the update does not fail for want of the row at
\* the re-fetch, and it answers null or the resource of a row that has the id
\* asked for and satisfies the constraint.
C14_RefetchRace ==
  Refetched =>
    /\ last.error = ""
    /\ \/ last.result = None
       \/ /\ last.result[1].attributes.id = last.id
          /\ Satisfies(last.result[1].attributes, last.constraints)

\* C14 for the updates no other statement ran beside.
C14_Unraced == (Refetched /\ ~last.raced) => C14_RefetchRace

====
